---- MODULE Spec2Model ----
(***************************************************************************)
(* A model of wapi.session.Session (src/wapi/session.py): the one-time     *)
(* authentication configuration, the request dispatch with bounded retry,  *)
(* the curve cache with its name index, and the construction of curve      *)
(* objects from response metadata.                                         *)
(*                                                                         *)
(* Calls are made one after the other, except in the specification of two  *)
(* callers that run get_curve at once, whose steps interleave.             *)
(*                                                                         *)
(* A call of a Session method is one action when the method makes no       *)
(* network call, and otherwise a call action (argument checks, cache       *)
(* lookup) followed by one Attempt action per invocation of data_request   *)
(* (the first one and each recursive retry); the Attempt that gets the     *)
(* final response also runs the method's response handling to its end.     *)
(***************************************************************************)
EXTENDS Integers, Sequences, FiniteSets, TLC

VARIABLES
    urlbase,      \* Session.urlbase
    auth,         \* Session.auth: None or the OAuth provider
    curve_cache,  \* Session._curve_cache: integer id -> curve object
    name_cache,   \* Session._name_cache: name -> integer id
    ncalls,       \* number of method calls started on the Session so far
    pc,           \* "idle" (no call yet), "request" (inside data_request), "done"
    op,           \* the method of the current / last call
    args,         \* its arguments
    retries,      \* data_request's remaining retry budget
    trace,        \* auth-provider and transport invocations made by the call
    response,     \* the response data_request returned to the method
    request,      \* the method, path and query handed to data_request
    result,       \* the value the call returned
    exc,          \* the exception the call raised
    pre,          \* the Session's fields when the call started
    race          \* two callers running get_curve on the Session at once

vars == <<urlbase, auth, curve_cache, name_cache, ncalls, pc, op, args,
          retries, trace, response, request, result, exc, pre, race>>

session == <<urlbase, auth, curve_cache, name_cache>>

----------------------------------------------------------------------------
(* Python values *)

\* An optional value: None, or the value itself.
None == <<>>
Some(x) == <<x>>
IsNone(o) == Len(o) = 0
Get(o) == o[1]

\* A dict: a function on its keys. d[k] = v is Put(d, k, v).
EmptyDict == <<>>
Put(d, k, v) == [x \in (DOMAIN d) \cup {k} |-> IF x = k THEN v ELSE d[x]]

Min(a, b) == IF a <= b THEN a ELSE b

\* d.update(e)
Update(d, e) ==
    [x \in (DOMAIN d) \cup (DOMAIN e) |-> IF x \in DOMAIN e THEN e[x] ELSE d[x]]

\* sep.join(texts)
RECURSIVE join(_, _)
join(sep, texts) ==
    IF Len(texts) = 0 THEN ""
    ELSE IF Len(texts) = 1 THEN Head(texts)
    ELSE Head(texts) \o sep \o join(sep, Tail(texts))

\* What a call raised: the exception class and what its message names.
Raised(type, detail) == [type |-> type, detail |-> detail]
NoExc == Raised("none", "")

\* What a call returned. kind: "none" (nothing returned), "None", "curve",
\* "list" (of curves), "json" (a parsed body), "response" (the raw response).
Returned(kind, curves, value) == [kind |-> kind, curves |-> curves, value |-> value]
NoResult == Returned("none", <<>>, <<>>)

----------------------------------------------------------------------------
(* Constants of the module *)

RETRY_COUNT == 4

DefaultUrlbase == "https://api.wattsight.com"
DefaultAuthUrlbase == "https://auth.wattsight.com/"

search_terms ==
    {"query", "id", "name", "commodity", "category", "area", "station", "source",
     "scenario", "unit", "time_zone", "version", "frequency", "data_type",
     "curve_state"}

attributes ==
    {"commodities", "categories", "areas", "stations", "sources", "scenarios",
     "units", "time_zones", "versions", "frequencies", "data_types",
     "curve_states", "curve_types"}

\* util.TIME_SERIES, util.TAGGED, util.INSTANCES, util.TAGGED_INSTANCES
TIME_SERIES == "TIME_SERIES"
TAGGED == "TAGGED"
INSTANCES == "INSTANCES"
TAGGED_INSTANCES == "TAGGED_INSTANCES"

\* Session._curve_types: type tag -> curve class
curve_types ==
    (TIME_SERIES :> "TimeSeriesCurve") @@ (TAGGED :> "TaggedCurve") @@
    (INSTANCES :> "InstanceCurve") @@ (TAGGED_INSTANCES :> "TaggedInstanceCurve")

meta_keys == <<"id", "name", "frequency", "time_zone", "curve_type">>

----------------------------------------------------------------------------
(* Configuration *)

\* auth.OAuth(session, client_id, client_secret, auth_urlbase)
OAuth(client_id, client_secret, auth_urlbase) ==
    Some([client_id |-> client_id, client_secret |-> client_secret,
          auth_urlbase |-> auth_urlbase])

\* A configuration file as configparser reads it: each option present or not.
\* config.get raises NoOptionError (NoSectionError) for an absent one.
ConfigFile(u, t, i, s, a) ==
    [urlbase |-> u, auth_type |-> t, id |-> i, secret |-> s, auth_urlbase |-> a]

Configured(a, u, e) == [auth |-> a, urlbase |-> u, exc |-> e]

\* Session.read_config_file past its guard: the file is read, urlbase is set
\* before auth_type is looked up, and auth is set last.
read_config(a, u, cf) ==
    IF IsNone(cf.urlbase) THEN Configured(a, u, Raised("NoOptionError", "urlbase"))
    ELSE LET u1 == Get(cf.urlbase) IN
         IF IsNone(cf.auth_type)
         THEN Configured(a, u1, Raised("NoOptionError", "auth_type"))
         ELSE IF Get(cf.auth_type) = "OAuth"
         THEN IF IsNone(cf.id)
              THEN Configured(a, u1, Raised("NoOptionError", "id"))
              ELSE IF IsNone(cf.secret)
              THEN Configured(a, u1, Raised("NoOptionError", "secret"))
              ELSE IF IsNone(cf.auth_urlbase)
              THEN Configured(a, u1, Raised("NoOptionError", "auth_urlbase"))
              ELSE Configured(OAuth(Get(cf.id), Get(cf.secret), Get(cf.auth_urlbase)),
                              u1, NoExc)
         ELSE Configured(a, u1, NoExc)

\* read_config_file without its check of self.auth
read_config_file_unchecked(a, u, cf) == read_config(a, u, cf)

\* Session.read_config_file on a Session with fields auth = a, urlbase = u.
read_config_file(a, u, cf) ==
    IF ~IsNone(a)
    THEN Configured(a, u, Raised("ConfigException", "Session configuration is already done"))
    ELSE read_config(a, u, cf)

\* configure without its check of self.auth
configure_unchecked(a, u, client_id, client_secret, auth_urlbase) ==
    Configured(OAuth(client_id, client_secret,
                     IF IsNone(auth_urlbase) THEN DefaultAuthUrlbase
                     ELSE Get(auth_urlbase)),
               u, NoExc)

\* Session.configure
configure(a, u, client_id, client_secret, auth_urlbase) ==
    IF ~IsNone(a)
    THEN Configured(a, u, Raised("ConfigException", "Session configuration is already done"))
    ELSE Configured(OAuth(client_id, client_secret,
                          IF IsNone(auth_urlbase) THEN DefaultAuthUrlbase
                          ELSE Get(auth_urlbase)),
                    u, NoExc)

\* Session.__init__(urlbase, config_file, client_id, client_secret, auth_urlbase)
CtorArgs(u, cf, i, s, a) ==
    [urlbase |-> u, config_file |-> cf, client_id |-> i, client_secret |-> s,
     auth_urlbase |-> a]

init(c) ==
    LET conf == IF ~IsNone(c.config_file)
                THEN read_config_file(None, DefaultUrlbase, Get(c.config_file))
                ELSE IF ~IsNone(c.client_id) /\ ~IsNone(c.client_secret)
                THEN configure(None, DefaultUrlbase, Get(c.client_id),
                               Get(c.client_secret), c.auth_urlbase)
                ELSE Configured(None, DefaultUrlbase, NoExc)
    IN  IF conf.exc # NoExc \/ IsNone(c.urlbase) THEN conf
        ELSE Configured(conf.auth, Get(c.urlbase), NoExc)

----------------------------------------------------------------------------
(* Curves *)

\* curves.<class>(id, metadata, session): a new object. oid is the object's
\* identity; the attributes of the metadata record become the curve's own.
Curve(class, id, metadata, oid) ==
    [oid |-> oid, class |-> class, id |-> id, metadata |-> metadata]

CurveName(c) == Get(c.metadata)["name"]

\* int(text) for a text of characters: defined on non-empty digit strings.
DigitVal ==
    ("0" :> 0) @@ ("1" :> 1) @@ ("2" :> 2) @@ ("3" :> 3) @@ ("4" :> 4) @@
    ("5" :> 5) @@ ("6" :> 6) @@ ("7" :> 7) @@ ("8" :> 8) @@ ("9" :> 9)

IsIntText(t) == Len(t) > 0 /\ \A i \in 1..Len(t) : t[i] \in DOMAIN DigitVal

RECURSIVE IntOf(_, _)
IntOf(t, acc) ==
    IF Len(t) = 0 THEN acc ELSE IntOf(Tail(t), acc * 10 + DigitVal[Head(t)])

int(t) == IntOf(t, 0)

\* The outcome of building: the two caches, the curves returned, the exception.
Built(cc, nc, curves, e) ==
    [curve_cache |-> cc, name_cache |-> nc, curves |-> curves, exc |-> e]

MissingKeys(metadata) ==
    {i \in 1..Len(meta_keys) : meta_keys[i] \notin DOMAIN metadata}

FirstMissingKey(metadata) ==
    meta_keys[CHOOSE i \in MissingKeys(metadata) :
                  \A j \in MissingKeys(metadata) : i <= j]

\* _build_curve without the insertion into the name cache
build_curve_no_name(cc, nc, metadata, oid) ==
    IF MissingKeys(metadata) # {}
    THEN Built(cc, nc, <<>>, Raised("MetadataException", FirstMissingKey(metadata)))
    ELSE IF ~IsIntText(metadata["id"])
    THEN Built(cc, nc, <<>>, Raised("ValueError", "id"))
    ELSE LET curve_id == int(metadata["id"]) IN
         IF metadata["curve_type"] \in DOMAIN curve_types
         THEN LET c == Curve(curve_types[metadata["curve_type"]], curve_id,
                             Some(metadata), oid)
              IN  Built(Put(cc, curve_id, c), nc, <<c>>, NoExc)
         ELSE Built(cc, nc, <<>>, Raised("CurveException", "Unknown curve type"))

\* _build_curve inserting into the caches before it looks at curve_type
build_curve_caches_first(cc, nc, metadata, oid) ==
    IF MissingKeys(metadata) # {}
    THEN Built(cc, nc, <<>>, Raised("MetadataException", FirstMissingKey(metadata)))
    ELSE IF ~IsIntText(metadata["id"])
    THEN Built(cc, nc, <<>>, Raised("ValueError", "id"))
    ELSE LET curve_id == int(metadata["id"])
             c == Curve(IF metadata["curve_type"] \in DOMAIN curve_types
                        THEN curve_types[metadata["curve_type"]] ELSE "",
                        curve_id, Some(metadata), oid)
             cc1 == Put(cc, curve_id, c)
             nc1 == Put(nc, CurveName(c), curve_id)
         IN  IF metadata["curve_type"] \in DOMAIN curve_types
             THEN Built(cc1, nc1, <<c>>, NoExc)
             ELSE Built(cc1, nc1, <<>>, Raised("CurveException", "Unknown curve type"))

\* _build_curve without the insertion into the curve cache
build_curve_no_curve(cc, nc, metadata, oid) ==
    IF MissingKeys(metadata) # {}
    THEN Built(cc, nc, <<>>, Raised("MetadataException", FirstMissingKey(metadata)))
    ELSE IF ~IsIntText(metadata["id"])
    THEN Built(cc, nc, <<>>, Raised("ValueError", "id"))
    ELSE LET curve_id == int(metadata["id"]) IN
         IF metadata["curve_type"] \in DOMAIN curve_types
         THEN LET c == Curve(curve_types[metadata["curve_type"]], curve_id,
                             Some(metadata), oid)
              IN  Built(cc, Put(nc, CurveName(c), curve_id), <<c>>, NoExc)
         ELSE Built(cc, nc, <<>>, Raised("CurveException", "Unknown curve type"))

\* _build_curve dropping the other names of the id it inserts
build_curve_one_name_per_id(cc, nc, metadata, oid) ==
    IF MissingKeys(metadata) # {}
    THEN Built(cc, nc, <<>>, Raised("MetadataException", FirstMissingKey(metadata)))
    ELSE IF ~IsIntText(metadata["id"])
    THEN Built(cc, nc, <<>>, Raised("ValueError", "id"))
    ELSE LET curve_id == int(metadata["id"]) IN
         IF metadata["curve_type"] \in DOMAIN curve_types
         THEN LET c == Curve(curve_types[metadata["curve_type"]], curve_id,
                             Some(metadata), oid)
                  cc1 == Put(cc, curve_id, c)
                  kept == {n \in DOMAIN nc : nc[n] # curve_id}
                  nc1 == Put([n \in kept |-> nc[n]], CurveName(c), curve_id)
              IN  Built(cc1, nc1, <<c>>, NoExc)
         ELSE Built(cc, nc, <<>>, Raised("CurveException", "Unknown curve type"))

\* _build_curve keeping an entry the caches already have
build_curve_keeps_first(cc, nc, metadata, oid) ==
    IF MissingKeys(metadata) # {}
    THEN Built(cc, nc, <<>>, Raised("MetadataException", FirstMissingKey(metadata)))
    ELSE IF ~IsIntText(metadata["id"])
    THEN Built(cc, nc, <<>>, Raised("ValueError", "id"))
    ELSE LET curve_id == int(metadata["id"]) IN
         IF metadata["curve_type"] \in DOMAIN curve_types
         THEN LET c == Curve(curve_types[metadata["curve_type"]], curve_id,
                             Some(metadata), oid)
                  cc1 == IF curve_id \in DOMAIN cc THEN cc ELSE Put(cc, curve_id, c)
                  nc1 == IF CurveName(c) \in DOMAIN nc THEN nc
                         ELSE Put(nc, CurveName(c), curve_id)
              IN  Built(cc1, nc1, <<c>>, NoExc)
         ELSE Built(cc, nc, <<>>, Raised("CurveException", "Unknown curve type"))

\* Session._build_curve on caches cc, nc; oid is the identity of the new object.
build_curve(cc, nc, metadata, oid) ==
    IF MissingKeys(metadata) # {}
    THEN Built(cc, nc, <<>>, Raised("MetadataException", FirstMissingKey(metadata)))
    ELSE IF ~IsIntText(metadata["id"])
    THEN Built(cc, nc, <<>>, Raised("ValueError", "id"))
    ELSE LET curve_id == int(metadata["id"]) IN
         IF metadata["curve_type"] \in DOMAIN curve_types
         THEN LET c == Curve(curve_types[metadata["curve_type"]], curve_id,
                             Some(metadata), oid)
                  cc1 == Put(cc, curve_id, c)
                  nc1 == Put(nc, CurveName(c), curve_id)
              IN  Built(cc1, nc1, <<c>>, NoExc)
         ELSE Built(cc, nc, <<>>, Raised("CurveException", "Unknown curve type"))

\* make_curve keeping the curve it makes in the curve cache
make_curve_cached(cc, nc, id, curve_type, oid) ==
    IF curve_type \in DOMAIN curve_types
    THEN LET c == Curve(curve_types[curve_type], id, None, oid)
         IN  Built(Put(cc, id, c), nc, <<c>>, NoExc)
    ELSE Built(cc, nc, <<>>, Raised("CurveException", "Bad curve type requested"))

\* Session.make_curve on caches cc, nc
make_curve(cc, nc, id, curve_type, oid) ==
    IF curve_type \in DOMAIN curve_types
    THEN Built(cc, nc, <<Curve(curve_types[curve_type], id, None, oid)>>, NoExc)
    ELSE Built(cc, nc, <<>>, Raised("CurveException", "Bad curve type requested"))

----------------------------------------------------------------------------
(* Responses and their handlers *)

\* A response body: whether it parses as JSON, and the value it parses to.
Body(json, value) == [json |-> json, value |-> value]
NotJson == Body(FALSE, <<>>)

Response(status, body) == [status |-> status, body |-> body]
NoResponse == Response(0, NotJson)

\* requests.Response.ok: raise_for_status raises for 400 <= status < 600.
ok(resp) == ~(400 <= resp.status /\ resp.status < 600)

\* handle_single_curve_response going on to the body whatever the status
handle_single_curve_response_unchecked(cc, nc, resp, call) ==
    IF ~resp.body.json
    THEN Built(cc, nc, <<>>, Raised("ValueError", "json"))
    ELSE build_curve(cc, nc, resp.body.value, <<call, 1>>)

\* Session.handle_single_curve_response
handle_single_curve_response(cc, nc, resp, call) ==
    IF ~ok(resp)
    THEN Built(cc, nc, <<>>, Raised("MetadataException", "Failed to load curve"))
    ELSE IF ~resp.body.json
    THEN Built(cc, nc, <<>>, Raised("ValueError", "json"))
    ELSE build_curve(cc, nc, resp.body.value, <<call, 1>>)

\* The loop of Session.handle_multi_curve_response: the k-th record of the
\* response is built as object <<call, k>>; an exception ends the loop.
RECURSIVE build_all(_, _, _, _, _)
build_all(cc, nc, metadata_list, res, call) ==
    IF Len(metadata_list) = 0 THEN Built(cc, nc, res, NoExc)
    ELSE LET b == build_curve(cc, nc, Head(metadata_list), <<call, Len(res) + 1>>)
         IN  IF b.exc # NoExc
             THEN Built(b.curve_cache, b.name_cache, <<>>, b.exc)
             ELSE build_all(b.curve_cache, b.name_cache, Tail(metadata_list),
                            res \o b.curves, call)

\* handle_multi_curve_response undoing its insertions when a record is refused
handle_multi_curve_response_atomic(cc, nc, resp, call) ==
    IF ~ok(resp)
    THEN Built(cc, nc, <<>>, Raised("MetadataException", "Curve search failed"))
    ELSE IF ~resp.body.json
    THEN Built(cc, nc, <<>>, Raised("ValueError", "json"))
    ELSE LET b == build_all(cc, nc, resp.body.value, <<>>, call)
         IN  IF b.exc # NoExc THEN Built(cc, nc, <<>>, b.exc) ELSE b

\* Session.handle_multi_curve_response
handle_multi_curve_response(cc, nc, resp, call) ==
    IF ~ok(resp)
    THEN Built(cc, nc, <<>>, Raised("MetadataException", "Curve search failed"))
    ELSE IF ~resp.body.json
    THEN Built(cc, nc, <<>>, Raised("ValueError", "json"))
    ELSE build_all(cc, nc, resp.body.value, <<>>, call)

\* What a call hands back: its return value and its exception.
Outcome(res, e) == [result |-> res, exc |-> e]

\* get_attribute taking every response that is ok for a success
attribute_response_ok(resp) ==
    IF ok(resp) /\ resp.status # 204
    THEN IF resp.body.json
         THEN Outcome(Returned("json", <<>>, resp.body.value), NoExc)
         ELSE Outcome(NoResult, Raised("ValueError", "json"))
    ELSE IF resp.status = 204
    THEN Outcome(Returned("None", <<>>, <<>>), NoExc)
    ELSE Outcome(NoResult, Raised("MetadataException", "Failed loading"))

\* Session.get_attribute from the response on
attribute_response(resp) ==
    IF resp.status = 200
    THEN IF resp.body.json
         THEN Outcome(Returned("json", <<>>, resp.body.value), NoExc)
         ELSE Outcome(NoResult, Raised("ValueError", "json"))
    ELSE IF resp.status = 204
    THEN Outcome(Returned("None", <<>>, <<>>), NoExc)
    ELSE Outcome(NoResult, Raised("MetadataException", "Failed loading"))

----------------------------------------------------------------------------
(* Request dispatch *)

\* The data argument: a text, or structured data (here a list of texts).
Data(kind, value) == [kind |-> kind, value |-> value]

\* text.encode(): the bytes of a text
encode(text) == [bytes |-> text]

\* json.dumps of a list of texts
dumps(value) ==
    "[" \o join(", ", [i \in 1..Len(value) |-> "\"" \o value[i] \o "\""]) \o "]"

\* a body that takes rawdata whenever it is given
databytes_rawdata_first(data, rawdata) ==
    IF ~IsNone(rawdata) THEN rawdata
    ELSE IF ~IsNone(data)
    THEN Some(IF Get(data).kind = "str" THEN encode(Get(data).value)
              ELSE encode(dumps(Get(data).value)))
    ELSE None

\* The databytes of data_request: the body that goes out.
databytes(data, rawdata) ==
    IF ~IsNone(data)
    THEN Some(IF Get(data).kind = "str" THEN encode(Get(data).value)
              ELSE encode(dumps(Get(data).value)))
    ELSE IF ~IsNone(rawdata) THEN rawdata
    ELSE None

\* The headers data_request sets itself.
content_headers(data) ==
    IF ~IsNone(data) THEN ("content_type" :> "application/json") ELSE EmptyDict

\* auth.get_headers(databytes): the headers of the provider
get_headers(body) == ("Authorization" :> "Bearer")

\* One invocation of the auth provider or of the transport: the status the
\* transport answered, the body bytes and the headers it was given.
Event(ev, status, body, headers) ==
    [ev |-> ev, status |-> status, body |-> body, headers |-> headers]

\* a retry test that takes every 4xx and 5xx status
IsRetryable_any_error(status) == 400 <= status /\ status < 600

IsRetryable(status) == (500 <= status /\ status < 600) \/ status = 408

\* data_request retrying while retries >= 0
data_request_retries_once_more(a, r, tr, data, rawdata, authok, resp) ==
    LET body == databytes(data, rawdata)
        t1 == IF IsNone(a) THEN tr
              ELSE Append(tr, Event("validate_auth", 0, None, EmptyDict))
    IN
    IF ~IsNone(a) /\ ~authok
    THEN [outcome |-> "raise", trace |-> t1, retries |-> r]
    ELSE LET headers == IF IsNone(a) THEN content_headers(data)
                        ELSE Update(content_headers(data), get_headers(body))
             t2 == IF IsNone(a) THEN t1
                   ELSE Append(t1, Event("get_headers", 0, body, EmptyDict))
             t3 == Append(t2, Event("send", resp.status, body, headers))
         IN  IF IsRetryable(resp.status) /\ r >= 0
             THEN [outcome |-> "retry", trace |-> t3, retries |-> r - 1]
             ELSE [outcome |-> "return", trace |-> t3, retries |-> r]

\* data_request validating the token on the first attempt only
data_request_validates_once(a, r, tr, data, rawdata, authok, resp) ==
    LET body == databytes(data, rawdata)
        t1 == IF IsNone(a) \/ Len(tr) > 0 THEN tr
              ELSE Append(tr, Event("validate_auth", 0, None, EmptyDict))
    IN
    IF ~IsNone(a) /\ ~authok /\ t1 # tr
    THEN [outcome |-> "raise", trace |-> t1, retries |-> r]
    ELSE LET headers == IF IsNone(a) THEN content_headers(data)
                        ELSE Update(content_headers(data), get_headers(body))
             t2 == IF IsNone(a) THEN t1
                   ELSE Append(t1, Event("get_headers", 0, body, EmptyDict))
             t3 == Append(t2, Event("send", resp.status, body, headers))
         IN  IF IsRetryable(resp.status) /\ r > 0
             THEN [outcome |-> "retry", trace |-> t3, retries |-> r - 1]
             ELSE [outcome |-> "return", trace |-> t3, retries |-> r]

\* One execution of the body of Session.data_request with remaining budget r
\* and the invocations tr made so far, for the arguments data and rawdata:
\* authok is whether auth.validate_auth returns, resp what the transport answers. outcome: "raise" (validate_auth
\* raised), "retry" (data_request calls itself with r - 1), "return".
data_request(a, r, tr, data, rawdata, authok, resp) ==
    LET body == databytes(data, rawdata)
        t1 == IF IsNone(a) THEN tr
              ELSE Append(tr, Event("validate_auth", 0, None, EmptyDict))
    IN
    IF ~IsNone(a) /\ ~authok
    THEN [outcome |-> "raise", trace |-> t1, retries |-> r]
    ELSE LET headers == IF IsNone(a) THEN content_headers(data)
                        ELSE Update(content_headers(data), get_headers(body))
             t2 == IF IsNone(a) THEN t1
                   ELSE Append(t1, Event("get_headers", 0, body, EmptyDict))
             t3 == Append(t2, Event("send", resp.status, body, headers))
         IN  IF IsRetryable(resp.status) /\ r > 0
             THEN [outcome |-> "retry", trace |-> t3, retries |-> r - 1]
             ELSE [outcome |-> "return", trace |-> t3, retries |-> r]

\* The statuses the transport answered in a trace, in order.
RECURSIVE Sent(_)
Sent(tr) ==
    IF Len(tr) = 0 THEN <<>>
    ELSE IF Head(tr).ev = "send" THEN <<Head(tr).status>> \o Sent(Tail(tr))
    ELSE Sent(Tail(tr))

----------------------------------------------------------------------------
(* Lookup and search, up to the request *)

\* A request: the method, the path and the key=value pairs of the query.
Pair(key, value) == [key |-> key, value |-> value]
Request(method, path, query) == [method |-> method, path |-> path, query |-> query]
NoRequest == Request("", "", <<>>)

\* How a method goes on: outcome "raise", "return" (curves is what it
\* returns) or "request" (req goes to data_request).
Step(outcome, curves, e, req) ==
    [outcome |-> outcome, curves |-> curves, exc |-> e, request |-> req]

\* get_curve without the lookup of the name in the name cache
get_curve_no_name_lookup(cc, nc, id, name) ==
    IF IsNone(id) /\ IsNone(name)
    THEN Step("raise", <<>>, Raised("MetadataException", "No curve specified"), NoRequest)
    ELSE IF ~IsNone(id) /\ Get(id) \in DOMAIN cc
         THEN Step("return", <<cc[Get(id)]>>, NoExc, NoRequest)
         ELSE Step("request", <<>>, NoExc,
                   Request("GET", "/api/curves/get",
                           IF ~IsNone(id) THEN <<Pair("id", Get(id))>>
                           ELSE <<Pair("name", Get(name))>>))

\* get_curve taking a cached curve for a name only if it has that name
get_curve_checks_name(cc, nc, id, name) ==
    IF IsNone(id) /\ IsNone(name)
    THEN Step("raise", <<>>, Raised("MetadataException", "No curve specified"), NoRequest)
    ELSE LET id1 == IF IsNone(id) /\ Get(name) \in DOMAIN nc
                       /\ nc[Get(name)] \in DOMAIN cc
                       /\ CurveName(cc[nc[Get(name)]]) = Get(name)
                    THEN Some(nc[Get(name)]) ELSE id
         IN  IF ~IsNone(id1) /\ Get(id1) \in DOMAIN cc
             THEN Step("return", <<cc[Get(id1)]>>, NoExc, NoRequest)
             ELSE Step("request", <<>>, NoExc,
                       Request("GET", "/api/curves/get",
                               IF ~IsNone(id1) THEN <<Pair("id", Get(id1))>>
                               ELSE <<Pair("name", Get(name))>>))

\* Session.get_curve up to its data_request
get_curve(cc, nc, id, name) ==
    IF IsNone(id) /\ IsNone(name)
    THEN Step("raise", <<>>, Raised("MetadataException", "No curve specified"), NoRequest)
    ELSE LET id1 == IF IsNone(id) /\ Get(name) \in DOMAIN nc
                    THEN Some(nc[Get(name)]) ELSE id
         IN  IF ~IsNone(id1) /\ Get(id1) \in DOMAIN cc
             THEN Step("return", <<cc[Get(id1)]>>, NoExc, NoRequest)
             ELSE Step("request", <<>>, NoExc,
                       Request("GET", "/api/curves/get",
                               IF ~IsNone(id1) THEN <<Pair("id", Get(id1))>>
                               ELSE <<Pair("name", Get(name))>>))

\* A search criterion (one keyword argument): val is a sequence of values
\* when iterable, and one value otherwise.
Criterion(key, iterable, val) == [key |-> key, iterable |-> iterable, val |-> val]

\* the loop of search taking one pair from a criterion, iterable or not
RECURSIVE search_args_one_pair_each(_, _)
search_args_one_pair_each(kwargs, argl) ==
    IF Len(kwargs) = 0 THEN [exc |-> NoExc, args |-> argl]
    ELSE LET c == Head(kwargs) IN
         IF c.key \notin search_terms
         THEN [exc |-> Raised("MetadataException", c.key), args |-> argl]
         ELSE search_args_one_pair_each(Tail(kwargs),
                  argl \o (IF c.iterable /\ Len(c.val) > 0
                           THEN <<Pair(c.key, c.val[1])>>
                           ELSE IF c.iterable THEN <<>>
                           ELSE <<Pair(c.key, c.val)>>))

\* The loop of Session.search over the keyword arguments, in their order.
RECURSIVE search_args(_, _)
search_args(kwargs, argl) ==
    IF Len(kwargs) = 0 THEN [exc |-> NoExc, args |-> argl]
    ELSE LET c == Head(kwargs) IN
         IF c.key \notin search_terms
         THEN [exc |-> Raised("MetadataException", c.key), args |-> argl]
         ELSE search_args(Tail(kwargs),
                          argl \o (IF c.iterable
                                   THEN [i \in 1..Len(c.val) |-> Pair(c.key, c.val[i])]
                                   ELSE <<Pair(c.key, c.val)>>))

\* search checking its keyword arguments after the request is made: here,
\* not before it
search_unchecked(kwargs) ==
    Step("request", <<>>, NoExc, Request("GET", "/api/curves", <<>>))

\* Session.search up to its data_request
search(kwargs) ==
    LET a == search_args(kwargs, <<>>) IN
    IF a.exc # NoExc THEN Step("raise", <<>>, a.exc, NoRequest)
    ELSE Step("request", <<>>, NoExc, Request("GET", "/api/curves", a.args))

\* '{}={}'.format(key, val) for a value that is a text
format(p) == p.key \o "=" \o p.value

\* The astr of Session.search: empty without pairs, else "?" and the pairs
\* joined with "&".
astr(argl) ==
    IF Len(argl) > 0
    THEN "?" \o join("&", [i \in 1..Len(argl) |-> format(argl[i])])
    ELSE ""

\* The url search hands to data_request: '/api/curves{}'.format(astr)
search_url(req) == req.path \o astr(req.query)

\* Session.get_attribute up to its data_request
get_attribute(attribute) ==
    IF attribute \notin attributes
    THEN Step("raise", <<>>, Raised("MetadataException", attribute), NoRequest)
    ELSE Step("request", <<>>, NoExc, Request("GET", attribute, <<>>))

\* What the method of the call does with the response data_request returned.
finish(o, cc, nc, resp, call) ==
    IF o = "get_curve"
    THEN LET b == handle_single_curve_response(cc, nc, resp, call)
         IN  [curve_cache |-> b.curve_cache, name_cache |-> b.name_cache,
              exc |-> b.exc,
              result |-> IF b.exc = NoExc THEN Returned("curve", b.curves, <<>>)
                         ELSE NoResult]
    ELSE IF o = "search"
    THEN LET b == handle_multi_curve_response(cc, nc, resp, call)
         IN  [curve_cache |-> b.curve_cache, name_cache |-> b.name_cache,
              exc |-> b.exc,
              result |-> IF b.exc = NoExc THEN Returned("list", b.curves, <<>>)
                         ELSE NoResult]
    ELSE IF o = "get_attribute"
    THEN LET r == attribute_response(resp)
         IN  [curve_cache |-> cc, name_cache |-> nc, exc |-> r.exc, result |-> r.result]
    ELSE [curve_cache |-> cc, name_cache |-> nc, exc |-> NoExc,
          result |-> Returned("response", <<>>, <<>>)]

----------------------------------------------------------------------------
(* The inputs the model draws from *)

MaxCalls == 2      \* method calls in one run of a Session
MaxRecords == 2    \* metadata records in one search response
MaxBudget == 4     \* the largest retry budget data_request is called with
MaxList == 3       \* metadata records in a response given to a handler

\* Configuration files
CfgOAuth ==
    ConfigFile(Some("https://cfg"), Some("OAuth"), Some("id1"), Some("s1"),
               Some("https://auth.cfg/"))
CfgOther == ConfigFile(Some("https://cfg"), Some("Basic"), None, None, None)
CfgNoType == ConfigFile(Some("https://cfg"), None, None, None, None)
CfgNoUrlbase == ConfigFile(None, Some("OAuth"), Some("id1"), Some("s1"),
                           Some("https://auth.cfg/"))
CfgNoSecret == ConfigFile(Some("https://cfg"), Some("OAuth"), Some("id1"), None,
                          Some("https://auth.cfg/"))
ConfigFiles == {CfgOAuth, CfgOther, CfgNoType, CfgNoUrlbase, CfgNoSecret}

AuthUrlbases == {None, Some("https://auth.alt/")}

\* Constructor calls: no arguments, or credentials and a urlbase.
Constructions ==
    {CtorArgs(None, None, None, None, None),
     CtorArgs(Some("https://alt"), None, Some("id2"), Some("s2"), None)}

\* Metadata records: a function on the keys the record has.
Metadata(id, name, curve_type) ==
    [k \in {"id", "name", "frequency", "time_zone", "curve_type"} |->
        CASE k = "id" -> id
          [] k = "name" -> name
          [] k = "frequency" -> "H"
          [] k = "time_zone" -> "CET"
          [] k = "curve_type" -> curve_type]

Without(metadata, keys) == [k \in (DOMAIN metadata) \ keys |-> metadata[k]]

Ids == {1, 2}
Names == {"A", "B"}
IdTexts == {<<"1">>, <<"2">>, <<"0", "2">>, <<"x">>, <<>>}
TypeTags == {TIME_SERIES, TAGGED, INSTANCES, TAGGED_INSTANCES, "BOGUS"}

\* The records a curve endpoint answers with.
Metas ==
    {Metadata(<<"1">>, "A", TIME_SERIES), Metadata(<<"1">>, "B", TAGGED),
     Metadata(<<"2">>, "A", INSTANCES),
     Without(Metadata(<<"2">>, "B", TAGGED_INSTANCES), {"time_zone"})}

\* The records _build_curve is given directly.
AllMetas ==
    {Metadata(i, n, t) : i \in IdTexts, n \in Names, t \in TypeTags}
    \cup {Metadata(<<"4", "2">>, "Oslo Temp", TIME_SERIES)}
    \cup {Without(Metadata(i, "A", t), ks) :
            i \in {<<"1">>, <<"x">>}, t \in {TIME_SERIES, "BOGUS"},
            ks \in SUBSET {"id", "name", "frequency", "time_zone", "curve_type"}}

RECURSIVE SeqsUpTo(_, _)
SeqsUpTo(S, n) ==
    IF n = 0 THEN {<<>>}
    ELSE LET shorter == SeqsUpTo(S, n - 1)
         IN  shorter \cup {Append(q, x) : q \in shorter, x \in S}

\* Response statuses: the ones the endpoint of method o answers with when
\* the full Session is run, and the ones the dispatcher is run against.
Statuses(o) ==
    IF o = "get_attribute" THEN {200, 201, 204, 301, 404, 503} ELSE {200, 404, 503}
AllStatuses == {200, 201, 204, 301, 400, 401, 404, 408, 429, 500, 503, 599, 600}

\* The bodies the endpoint of method o answers with.
Bodies(o) ==
    IF o = "get_curve" THEN {NotJson} \cup {Body(TRUE, m) : m \in Metas}
    ELSE IF o = "search"
    THEN {NotJson} \cup {Body(TRUE, ms) : ms \in SeqsUpTo(Metas, MaxRecords)}
    ELSE {NotJson, Body(TRUE, <<"NO", "SE">>)}

\* An error response (400 <= status < 600) carries a text that is not JSON.
Responses(o, statuses) ==
    {Response(s, b) : s \in {x \in statuses : x < 400 \/ x >= 600}, b \in Bodies(o)}
    \cup {Response(s, NotJson) : s \in {x \in statuses : 400 <= x /\ x < 600}}

\* The responses handle_multi_curve_response is given directly: lists of
\* valid records that share ids and names, no record twice in a list.
ListMetas ==
    {Metadata(<<"1">>, "A", TIME_SERIES), Metadata(<<"1">>, "B", TAGGED),
     Metadata(<<"2">>, "A", INSTANCES), Metadata(<<"2">>, "B", TAGGED_INSTANCES)}

ListResponses ==
    {Response(200, Body(TRUE, ms)) :
        ms \in {q \in SeqsUpTo(ListMetas, MaxList) :
                  \A k \in 1..Len(q), l \in 1..Len(q) : q[k] = q[l] => k = l}}
    \cup {Response(200, NotJson), Response(404, NotJson)}

\* A transport that fails in every way: each status comes with a body that
\* is not JSON and with one that is a record (a list of one record).
FailingStatuses == {200, 401, 404, 408, 503}
FailingResponses(o) ==
    {Response(st, b) :
        st \in FailingStatuses,
        b \in {NotJson,
               Body(TRUE, IF o = "search" THEN <<Metadata(<<"1">>, "A", TIME_SERIES)>>
                          ELSE Metadata(<<"1">>, "A", TIME_SERIES))}}

\* What the endpoint answers to a lookup of id: a record of that id under
\* one name or another, a record lacking a key, or a failure.
RaceResponses(id) ==
    LET text == IF id = 1 THEN <<"1">> ELSE <<"2">> IN
    {Response(200, Body(TRUE, Metadata(text, n, TIME_SERIES))) : n \in Names}
    \cup {Response(200, Body(TRUE, Without(Metadata(text, "A", TAGGED), {"frequency"}))),
          Response(404, NotJson)}

\* Successful answers to a search whose records are valid or not: valid
\* records that share an id or a name, one lacking two keys, one of an
\* unknown curve_type, one whose id is not a number.
PartialMetas ==
    {Metadata(<<"1">>, "A", TIME_SERIES), Metadata(<<"2">>, "A", INSTANCES),
     Metadata(<<"1">>, "B", TAGGED),
     Without(Metadata(<<"2">>, "B", TAGGED), {"frequency", "time_zone"}),
     Metadata(<<"1">>, "B", "BOGUS"), Metadata(<<"x">>, "B", TAGGED)}

PartialResponses ==
    {Response(200, Body(TRUE, ms)) : ms \in SeqsUpTo(PartialMetas, MaxRecords)}

\* Keyword arguments of search
Kwargs ==
    {<<Criterion("area", TRUE, <<"NO", "SE">>), Criterion("name", FALSE, "A")>>,
     <<Criterion("foo", FALSE, "x")>>,
     <<Criterion("area", TRUE, <<"NO", "SE">>), Criterion("foo", FALSE, "x")>>,
     <<Criterion("foo", FALSE, "x"), Criterion("name", FALSE, "A")>>}

\* Keyword arguments of search, of every shape: none, scalar and iterable
\* values, an empty iterable, a key outside the allow-list.
Criteria ==
    {Criterion("area", TRUE, <<"NO", "SE">>), Criterion("area", TRUE, <<>>),
     Criterion("name", FALSE, "A"), Criterion("commodity", TRUE, <<"POW">>),
     Criterion("foo", FALSE, "x")}

AllKwargs ==
    {kw \in SeqsUpTo(Criteria, 2) : Len(kw) = 2 => kw[1].key # kw[2].key}

\* What the search endpoint answers when the query is what is looked at.
SearchResponses ==
    {Response(200, Body(TRUE, <<>>)),
     Response(200, Body(TRUE, <<Metadata(<<"1">>, "A", TIME_SERIES)>>)),
     Response(404, NotJson), Response(503, NotJson)}

AttributeNames == {"areas", "area", ""}

\* The data and rawdata arguments of data_request
DataValues ==
    {None, Some(Data("str", "abc")), Some(Data("str", "")),
     Some(Data("list", <<"NO", "SE">>)), Some(Data("list", <<>>))}
RawValues == {None, Some(encode("raw"))}

----------------------------------------------------------------------------
(* The state machine *)

\* Two callers of get_curve(id) on one Session, without a lock. Each is at
\* "idle", "check" (line 86), "request" (lines 93-94, 194-198 and the
\* construction of the curve in _build_curve), "write_curve" (line 160),
\* "write_name" (line 161) or "done"; curve is the curve it built or found.
Callers == {1, 2}

Caller(at, curve, e, requested) ==
    [pc |-> at, curve |-> curve, exc |-> e, requested |-> requested]

NoRace ==
    [id |-> 0, thr |-> [t \in Callers |-> Caller("idle", None, NoExc, FALSE)],
     writes |-> <<>>]

\* _build_curve writing the name cache before the curve cache
build_writes_name_first == <<"write_name", "write_curve">>

\* The order in which _build_curve writes the two caches (lines 160, 161).
build_writes == <<"write_curve", "write_name">>

Snapshot ==
    [auth |-> auth, urlbase |-> urlbase, curve_cache |-> curve_cache,
     name_cache |-> name_cache]

Init ==
    /\ \E c \in Constructions :
          /\ init(c).exc = NoExc
          /\ auth = init(c).auth
          /\ urlbase = init(c).urlbase
    /\ curve_cache = EmptyDict
    /\ name_cache = EmptyDict
    /\ ncalls = 0
    /\ pc = "idle"
    /\ op = "none"
    /\ args = <<>>
    /\ retries = 0
    /\ trace = <<>>
    /\ response = NoResponse
    /\ request = NoRequest
    /\ result = NoResult
    /\ exc = NoExc
    /\ pre = [auth |-> None, urlbase |-> DefaultUrlbase,
              curve_cache |-> EmptyDict, name_cache |-> EmptyDict]
    /\ race = NoRace

\* A method is called: no other call of the Session is running.
Begin(o, a) ==
    /\ pc # "request"
    /\ ncalls < MaxCalls
    /\ ncalls' = ncalls + 1
    /\ op' = o
    /\ args' = a
    /\ pre' = Snapshot
    /\ trace' = <<>>
    /\ response' = NoResponse
    /\ UNCHANGED race

\* The call returns res or raises e without a request.
End(res, e) ==
    /\ pc' = "done"
    /\ result' = res
    /\ exc' = e
    /\ request' = NoRequest
    /\ retries' = 0

\* The call goes into data_request with retry budget r.
Dispatch(req, r) ==
    /\ pc' = "request"
    /\ result' = NoResult
    /\ exc' = NoExc
    /\ request' = req
    /\ retries' = r

Call_read_config_file ==
    \E cf \in ConfigFiles :
        LET c == read_config_file(auth, urlbase, cf) IN
        /\ Begin("read_config_file", [config_file |-> cf])
        /\ auth' = c.auth
        /\ urlbase' = c.urlbase
        /\ End(IF c.exc = NoExc THEN Returned("None", <<>>, <<>>) ELSE NoResult, c.exc)
        /\ UNCHANGED <<curve_cache, name_cache>>

Call_configure ==
    \E a \in AuthUrlbases :
        LET c == configure(auth, urlbase, "id3", "s3", a) IN
        /\ Begin("configure", [client_id |-> "id3", client_secret |-> "s3",
                               auth_urlbase |-> a])
        /\ auth' = c.auth
        /\ urlbase' = c.urlbase
        /\ End(IF c.exc = NoExc THEN Returned("None", <<>>, <<>>) ELSE NoResult, c.exc)
        /\ UNCHANGED <<curve_cache, name_cache>>

Call_make_curve ==
    \E id \in Ids, t \in TypeTags :
        LET m == make_curve(curve_cache, name_cache, id, t, <<ncalls + 1, 1>>) IN
        /\ Begin("make_curve", [id |-> id, curve_type |-> t])
        /\ curve_cache' = m.curve_cache
        /\ name_cache' = m.name_cache
        /\ End(IF m.exc = NoExc THEN Returned("curve", m.curves, <<>>) ELSE NoResult,
               m.exc)
        /\ UNCHANGED <<auth, urlbase>>

Call_build_curve ==
    \E m \in AllMetas :
        LET b == build_curve(curve_cache, name_cache, m, <<ncalls + 1, 1>>) IN
        /\ Begin("_build_curve", [metadata |-> m])
        /\ curve_cache' = b.curve_cache
        /\ name_cache' = b.name_cache
        /\ End(IF b.exc = NoExc THEN Returned("curve", b.curves, <<>>) ELSE NoResult,
               b.exc)
        /\ UNCHANGED <<auth, urlbase>>

Call_handle_multi_curve_response ==
    \E resp \in ListResponses :
        LET b == handle_multi_curve_response(curve_cache, name_cache, resp,
                                             ncalls + 1) IN
        /\ Begin("handle_multi_curve_response", [response |-> resp])
        /\ curve_cache' = b.curve_cache
        /\ name_cache' = b.name_cache
        /\ End(IF b.exc = NoExc THEN Returned("list", b.curves, <<>>) ELSE NoResult,
               b.exc)
        /\ UNCHANGED <<auth, urlbase>>

\* A method that may go to the network goes on as st says: it raises,
\* returns, or calls data_request with the default retry budget.
Continue(st) ==
    IF st.outcome = "request"
    THEN Dispatch(st.request, RETRY_COUNT)
    ELSE End(IF st.outcome = "return" THEN Returned("curve", st.curves, <<>>)
             ELSE NoResult, st.exc)

Call_get_curve ==
    \E id \in {None} \cup {Some(i) : i \in Ids},
       name \in {None} \cup {Some(n) : n \in Names} :
        /\ Begin("get_curve", [id |-> id, name |-> name])
        /\ Continue(get_curve(curve_cache, name_cache, id, name))
        /\ UNCHANGED session

Call_search ==
    \E kwargs \in Kwargs :
        /\ Begin("search", [kwargs |-> kwargs])
        /\ Continue(search(kwargs))
        /\ UNCHANGED session

Call_search_any ==
    \E kwargs \in AllKwargs :
        /\ Begin("search", [kwargs |-> kwargs])
        /\ Continue(search(kwargs))
        /\ UNCHANGED session

Call_get_attribute ==
    \E attribute \in AttributeNames :
        /\ Begin("get_attribute", [attribute |-> attribute])
        /\ Continue(get_attribute(attribute))
        /\ UNCHANGED session

\* data_request called on its own, with a retry budget.
Call_data_request ==
    \E r \in 0..MaxBudget :
        /\ Begin("data_request", [retries |-> r, data |-> None, rawdata |-> None])
        /\ Dispatch(Request("GET", "/api/curves", <<>>), r)
        /\ UNCHANGED session

\* data_request called on its own, with a body.
Call_data_request_with ==
    \E r \in 0..MaxBudget, data \in DataValues, rawdata \in RawValues :
        /\ Begin("data_request", [retries |-> r, data |-> data, rawdata |-> rawdata])
        /\ Dispatch(Request("POST", "/api/series", <<>>), r)
        /\ UNCHANGED session

\* One execution of data_request's body against a transport that answers
\* with one of the given responses; the last one carries on to the end of
\* the method that called data_request.
AttemptOn(responses) ==
    /\ \E authok \in (IF IsNone(auth) THEN {TRUE} ELSE BOOLEAN),
          resp \in responses :
          LET data == IF op = "data_request" THEN args.data ELSE None
              rawdata == IF op = "data_request" THEN args.rawdata ELSE None
              d == data_request(auth, retries, trace, data, rawdata, authok, resp)
              f == finish(op, curve_cache, name_cache, resp, ncalls)
          IN  /\ trace' = d.trace
              /\ retries' = d.retries
              /\ pc' = IF d.outcome = "retry" THEN "request" ELSE "done"
              /\ response' = IF d.outcome = "return" THEN resp ELSE NoResponse
              /\ exc' = IF d.outcome = "raise" THEN Raised("AuthError", "validate_auth")
                        ELSE IF d.outcome = "return" THEN f.exc ELSE NoExc
              /\ result' = IF d.outcome = "return" THEN f.result ELSE NoResult
              /\ curve_cache' = IF d.outcome = "return" THEN f.curve_cache
                                ELSE curve_cache
              /\ name_cache' = IF d.outcome = "return" THEN f.name_cache
                               ELSE name_cache
    /\ UNCHANGED <<auth, urlbase, ncalls, op, args, request, pre, race>>

Attempt ==
    /\ pc = "request"
    /\ AttemptOn(Responses(op, Statuses(op)))

AttemptAny ==
    /\ pc = "request"
    /\ AttemptOn(Responses(op, AllStatuses))

AttemptFailing ==
    /\ pc = "request"
    /\ AttemptOn(FailingResponses(op))

\* Both callers are handed the same id, which is not cached.
Race_start ==
    /\ race = NoRace
    /\ \E id \in Ids :
          /\ id \notin DOMAIN curve_cache
          /\ race' = [id |-> id,
                      thr |-> [t \in Callers |-> Caller("check", None, NoExc, FALSE)],
                      writes |-> <<>>]
    /\ UNCHANGED <<urlbase, auth, curve_cache, name_cache, ncalls, pc, op, args,
                   retries, trace, response, request, result, exc, pre>>

\* The step of caller t to position at: its new record, the caches after it.
Race_step(t, caller, cc, nc, wrote) ==
    /\ race' = [race EXCEPT !.thr[t] = caller,
                            !.writes = IF wrote THEN Append(@, t) ELSE @]
    /\ curve_cache' = cc
    /\ name_cache' = nc
    /\ UNCHANGED <<urlbase, auth, ncalls, pc, op, args,
                   retries, trace, response, request, result, exc, pre>>

\* get_curve up to its data_request: the id is looked up in the curve cache.
Race_check ==
    \E t \in Callers :
        /\ race.thr[t].pc = "check"
        /\ LET st == get_curve(curve_cache, name_cache, Some(race.id), None) IN
           Race_step(t,
                     IF st.outcome = "return"
                     THEN Caller("done", Some(st.curves[1]), NoExc, FALSE)
                     ELSE Caller("request", None, NoExc, TRUE),
                     curve_cache, name_cache, FALSE)

\* The caller's own request is answered; the handler refuses the response
\* or constructs the curve.
Race_respond ==
    \E t \in Callers, resp \in RaceResponses(race.id) :
        /\ race.thr[t].pc = "request"
        /\ LET b == handle_single_curve_response(curve_cache, name_cache, resp, t) IN
           Race_step(t,
                     IF b.exc # NoExc THEN Caller("done", None, b.exc, TRUE)
                     ELSE Caller(build_writes[1], Some(b.curves[1]), NoExc, TRUE),
                     curve_cache, name_cache, FALSE)

\* self._curve_cache[curve_id] = c
Race_write_curve ==
    \E t \in Callers :
        /\ race.thr[t].pc = "write_curve"
        /\ LET c == Get(race.thr[t].curve) IN
           Race_step(t,
                     Caller(IF build_writes[1] = "write_curve" THEN build_writes[2]
                            ELSE "done", Some(c), NoExc, TRUE),
                     Put(curve_cache, c.id, c), name_cache, TRUE)

\* self._name_cache[c.name] = curve_id
Race_write_name ==
    \E t \in Callers :
        /\ race.thr[t].pc = "write_name"
        /\ LET c == Get(race.thr[t].curve) IN
           Race_step(t,
                     Caller(IF build_writes[1] = "write_name" THEN build_writes[2]
                            ELSE "done", Some(c), NoExc, TRUE),
                     curve_cache, Put(name_cache, CurveName(c), c.id), FALSE)

AttemptSearch ==
    /\ pc = "request"
    /\ AttemptOn(SearchResponses)

AttemptPartial ==
    /\ pc = "request"
    /\ AttemptOn(PartialResponses)

\* The Session, with every method.
Next ==
    \/ Call_read_config_file
    \/ Call_configure
    \/ Call_get_curve
    \/ Call_search
    \/ Call_make_curve
    \/ Call_get_attribute
    \/ Call_data_request
    \/ Attempt

Spec == Init /\ [][Next]_vars

\* The dispatcher, against every status.
NextDispatch ==
    \/ Call_get_attribute
    \/ Call_data_request
    \/ AttemptAny

SpecDispatch == Init /\ [][NextDispatch]_vars

\* The curve factory, on every record.
NextBuild == Call_build_curve

SpecBuild == Init /\ [][NextBuild]_vars

\* search, with keyword arguments of every shape.
NextSearch ==
    \/ Call_search_any
    \/ AttemptSearch

SpecSearch == Init /\ [][NextSearch]_vars

\* The dispatcher, with every kind of body.
NextPayload ==
    \/ Call_data_request_with
    \/ Attempt

SpecPayload == Init /\ [][NextPayload]_vars

\* The handler of multi-curve responses, on responses of every shape.
NextMulti == Call_handle_multi_curve_response

SpecMulti == Init /\ [][NextMulti]_vars

\* Lookup and search against a transport that fails in every way.
NextFailure ==
    \/ Call_get_curve
    \/ Call_search
    \/ AttemptFailing

SpecFailure == Init /\ [][NextFailure]_vars

\* Two callers of get_curve for one id, their steps in any order.
NextRace ==
    \/ Race_start
    \/ Race_check
    \/ Race_respond
    \/ Race_write_curve
    \/ Race_write_name

SpecRace == Init /\ [][NextRace]_vars

\* search against answers whose records are valid or not.
NextPartial ==
    \/ Call_search
    \/ AttemptPartial

SpecPartial == Init /\ [][NextPartial]_vars

----------------------------------------------------------------------------
(* Properties *)

ConfigOps == {"read_config_file", "configure"}

\* A step that is the call of a configuration method right after the call
\* of a configuration method that returned.
SecondConfiguration ==
    /\ pc = "done" /\ op \in ConfigOps /\ exc = NoExc
    /\ ncalls' = ncalls + 1 /\ op' \in ConfigOps

ConfigurationRefused ==
    /\ exc'.type = "ConfigException"
    /\ auth' = auth
    /\ urlbase' = urlbase

\* C1 as stated: of two configuration calls made one after the other
\* (read_config_file or configure, with any arguments), if the first returned
\* then the second raises ConfigException and changes neither auth nor
\* urlbase.
C1_SecondConfigurationFails ==
    [][SecondConfiguration => ConfigurationRefused]_vars

\* C1 as amended: of two configuration calls made one after the other, if the
\* first returned and left auth set (configure, or read_config_file of a file
\* whose auth_type is "OAuth"), then the second raises ConfigException and
\* changes neither auth nor urlbase.
C1_SecondConfigurationFailsOnceAuthSet ==
    [][(SecondConfiguration /\ ~IsNone(auth)) => ConfigurationRefused]_vars

\* configure returned, and the read_config_file after it was refused.
C1_Witness ==
    /\ pc = "done" /\ ncalls = 2 /\ op = "read_config_file"
    /\ args.config_file = CfgOAuth
    /\ exc.type = "ConfigException"
    /\ pre.auth = OAuth("id3", "s3", DefaultAuthUrlbase)
    /\ auth = pre.auth /\ urlbase = pre.urlbase

\* The statuses of a run of transport answers that lead it and are 5xx or 408.
RECURSIVE LeadingTransient(_)
LeadingTransient(statuses) ==
    IF Len(statuses) = 0 THEN 0
    ELSE IF (500 <= Head(statuses) /\ Head(statuses) < 600) \/ Head(statuses) = 408
    THEN 1 + LeadingTransient(Tail(statuses))
    ELSE 0

\* A call of data_request on its own has returned.
DataRequestReturned ==
    pc = "done" /\ op = "data_request" /\ exc = NoExc

\* C2: data_request with retry budget r, against a transport whose first k
\* answers are 5xx or 408 and whose next answer is not, invokes the transport
\* min(k, r) + 1 times and returns the last answer (when every answer so far
\* was 5xx or 408, k is at least their number, and that is r + 1 invocations);
\* with r = 0 an answer of 500 is returned after one invocation; against
\* 503, 503, 503, 200 it returns 200 after 4 invocations with r = 4, and 503
\* after 3 invocations with r = 2.
C2_RetryBudget ==
    DataRequestReturned =>
        LET sent == Sent(trace)
            r == args.retries
            k == LeadingTransient(sent)
        IN  /\ Len(sent) >= 1
            /\ IF k < Len(sent) THEN Len(sent) = Min(k, r) + 1
                                ELSE Len(sent) = r + 1
            /\ result.kind = "response"
            /\ response.status = sent[Len(sent)]
            /\ (r = 0 /\ sent[1] = 500) => (sent = <<500>> /\ response.status = 500)
            /\ (r = 4 /\ Len(sent) >= 4 /\ SubSeq(sent, 1, 4) = <<503, 503, 503, 200>>)
                   => (Len(sent) = 4 /\ response.status = 200)
            /\ (r = 2 /\ Len(sent) >= 3 /\ SubSeq(sent, 1, 3) = <<503, 503, 503>>)
                   => (Len(sent) = 3 /\ response.status = 503)

\* With budget 2, three answers of 503: the third one is returned.
C2_Witness ==
    /\ DataRequestReturned
    /\ args.retries = 2
    /\ Sent(trace) = <<503, 503, 503>>
    /\ response.status = 503

\* C3: a first answer whose status is neither in [500, 600) nor 408 is
\* returned by data_request after that one invocation of the transport,
\* whatever the retry budget, as a value and not as an exception.
C3_OtherStatusReturnedAtOnce ==
    (op = "data_request" /\ Len(Sent(trace)) >= 1
        /\ LeadingTransient(Sent(trace)) = 0)
    => /\ pc = "done"
       /\ Len(Sent(trace)) = 1
       /\ exc = NoExc
       /\ result.kind = "response"
       /\ response.status = Sent(trace)[1]

\* A 429 with the full budget left.
C3_Witness ==
    /\ DataRequestReturned
    /\ args.retries = RETRY_COUNT
    /\ Sent(trace) = <<429>>
    /\ response.status = 429

CachesUntouched ==
    curve_cache = pre.curve_cache /\ name_cache = pre.name_cache

SessionUntouched ==
    CachesUntouched /\ auth = pre.auth /\ urlbase = pre.urlbase

\* get_curve was called with an id that was in the curve cache, or with a
\* name alone that was in the name cache.
CachedLookup ==
    /\ op = "get_curve"
    /\ \/ (~IsNone(args.id) /\ Get(args.id) \in DOMAIN pre.curve_cache)
       \/ (IsNone(args.id) /\ ~IsNone(args.name)
              /\ Get(args.name) \in DOMAIN pre.name_cache)

\* C4: get_curve(id=i) with i in the curve cache, and get_curve(name=n) with
\* n in the name cache, returns the object the curve cache holds (one built
\* by an earlier call), without any invocation of the transport or of the
\* auth provider, and leaves both caches as they were.
C4_CachedCurveReturned ==
    CachedLookup =>
        LET i == IF ~IsNone(args.id) THEN Get(args.id)
                 ELSE pre.name_cache[Get(args.name)]
        IN  /\ pc = "done"
            /\ exc = NoExc
            /\ i \in DOMAIN pre.curve_cache
            /\ result = Returned("curve", <<pre.curve_cache[i]>>, <<>>)
            /\ result.curves[1].oid[1] < ncalls
            /\ trace = <<>>
            /\ CachesUntouched

\* get_curve(name="A") after a call that built a curve named A.
C4_Witness ==
    /\ pc = "done" /\ op = "get_curve"
    /\ IsNone(args.id) /\ args.name = Some("A")
    /\ "A" \in DOMAIN pre.name_cache
    /\ result.kind = "curve"
    /\ CurveName(result.curves[1]) = "A"
    /\ trace = <<>>

\* _build_curve was given a record with the five mandatory keys, an id that
\* int() converts and a curve_type of the registry.
ValidRecord(metadata) ==
    /\ \A i \in 1..Len(meta_keys) : meta_keys[i] \in DOMAIN metadata
    /\ IsIntText(metadata["id"])
    /\ metadata["curve_type"] \in {TIME_SERIES, TAGGED, INSTANCES, TAGGED_INSTANCES}

BuildCalled == pc = "done" /\ op = "_build_curve"

\* C5: on a record with the five mandatory keys, an id convertible to an
\* integer and a curve_type of the registry, _build_curve returns a curve of
\* the class registered for the tag with the integer id, and afterwards the
\* curve cache maps that id to the returned curve and the name cache maps the
\* curve's name to that id (id "02" is 2; the record of id "42" named
\* "Oslo Temp" is cached under 42).
C5_BuildCaches ==
    (BuildCalled /\ ValidRecord(args.metadata)) =>
        /\ exc = NoExc
        /\ result.kind = "curve"
        /\ Len(result.curves) = 1
        /\ LET c == result.curves[1]
               m == args.metadata
           IN  /\ c.class = curve_types[m["curve_type"]]
               /\ c.id = int(m["id"])
               /\ (m["id"] = <<"0", "2">>) => c.id = 2
               /\ (m["id"] = <<"4", "2">>) => c.id = 42
               /\ (m["curve_type"] = TIME_SERIES) => c.class = "TimeSeriesCurve"
               /\ c.id \in DOMAIN curve_cache
               /\ curve_cache[c.id] = c
               /\ CurveName(c) = m["name"]
               /\ m["name"] \in DOMAIN name_cache
               /\ name_cache[m["name"]] = c.id

\* The record of the specification's example, built on a Session that
\* already holds a curve.
C5_Witness ==
    /\ BuildCalled
    /\ args.metadata = Metadata(<<"4", "2">>, "Oslo Temp", TIME_SERIES)
    /\ DOMAIN pre.curve_cache # {}
    /\ 42 \in DOMAIN curve_cache
    /\ curve_cache[42].class = "TimeSeriesCurve"
    /\ name_cache["Oslo Temp"] = 42

\* A record lacking a mandatory key is refused with MetadataException naming
\* the first key it lacks, whatever its curve_type, and the caches stay.
MissingKeyRefused ==
    (BuildCalled /\ \E i \in 1..Len(meta_keys) : meta_keys[i] \notin DOMAIN args.metadata)
    => /\ exc.type = "MetadataException"
       /\ \E i \in 1..Len(meta_keys) :
             /\ exc.detail = meta_keys[i]
             /\ meta_keys[i] \notin DOMAIN args.metadata
             /\ \A j \in 1..(i - 1) : meta_keys[j] \in DOMAIN args.metadata
       /\ CachesUntouched

HasAllKeys(metadata) ==
    \A i \in 1..Len(meta_keys) : meta_keys[i] \in DOMAIN metadata

UnknownType(metadata) ==
    metadata["curve_type"] \notin {TIME_SERIES, TAGGED, INSTANCES, TAGGED_INSTANCES}

\* C6 as stated: _build_curve on a record lacking one of id, name, frequency,
\* time_zone, curve_type raises MetadataException naming the first one it
\* lacks; on a record with all of them and a curve_type outside the registry
\* it raises CurveException; either way the caches are what they were.
C6_BadRecordRefused ==
    /\ MissingKeyRefused
    /\ (BuildCalled /\ HasAllKeys(args.metadata) /\ UnknownType(args.metadata))
       => (exc.type = "CurveException" /\ CachesUntouched)

\* C6 as amended: ... on a record with all five keys, an id that converts to
\* an integer and a curve_type outside the registry it raises CurveException
\* (the id is converted first: one that does not convert raises ValueError);
\* in all these cases the caches are what they were.
C6_BadRecordRefusedIdFirst ==
    /\ MissingKeyRefused
    /\ (BuildCalled /\ HasAllKeys(args.metadata) /\ UnknownType(args.metadata))
       => /\ exc.type = IF IsIntText(args.metadata["id"]) THEN "CurveException"
                        ELSE "ValueError"
          /\ CachesUntouched

\* A record with an unknown curve_type, refused on a Session that holds a curve.
C6_Witness ==
    /\ BuildCalled
    /\ HasAllKeys(args.metadata) /\ UnknownType(args.metadata)
    /\ exc.type = "CurveException"
    /\ DOMAIN pre.curve_cache # {}
    /\ CachesUntouched

\* The call fails the check of its parameters.
BadParameters ==
    \/ (op = "get_curve" /\ IsNone(args.id) /\ IsNone(args.name))
    \/ (op = "search" /\ \E i \in 1..Len(args.kwargs) :
                            args.kwargs[i].key \notin search_terms)
    \/ (op = "get_attribute" /\ args.attribute \notin attributes)

\* C7: get_curve without id and name, search with a criterion outside the
\* allow-list (whatever its other criteria) and get_attribute with a name
\* outside the attribute set raise MetadataException without any invocation
\* of the transport or of the auth provider, and leave auth, urlbase and the
\* two caches as they were.
C7_ParametersCheckedFirst ==
    BadParameters =>
        /\ pc = "done"
        /\ exc.type = "MetadataException"
        /\ result = NoResult
        /\ trace = <<>>
        /\ SessionUntouched

\* search(area=[...], foo=...) on a configured Session that holds a curve.
C7_Witness ==
    /\ pc = "done" /\ op = "search"
    /\ Len(args.kwargs) = 2
    /\ args.kwargs[1].key = "area" /\ args.kwargs[2].key = "foo"
    /\ exc = Raised("MetadataException", "foo")
    /\ ~IsNone(auth)
    /\ DOMAIN curve_cache # {}
    /\ trace = <<>>

\* get_attribute got a response from data_request.
AttributeAnswered ==
    /\ pc = "done" /\ op = "get_attribute"
    /\ args.attribute \in attributes
    /\ response.status # 0

\* C8: for a valid attribute name, get_attribute returns the parsed JSON body
\* (of a body that is JSON) when the final response has status 200, returns
\* None when it has status 204, and raises MetadataException for any other
\* final status (201, 3xx, 4xx, a 5xx that lasted through all retries); it
\* leaves the two caches as they were.
C8_AttributeByStatus ==
    AttributeAnswered =>
        /\ response.status = Sent(trace)[Len(Sent(trace))]
        /\ (response.status = 200 /\ response.body.json)
           => (exc = NoExc /\ result = Returned("json", <<>>, response.body.value))
        /\ (response.status = 204)
           => (exc = NoExc /\ result = Returned("None", <<>>, <<>>))
        /\ (response.status \notin {200, 204})
           => (exc.type = "MetadataException" /\ result = NoResult)
        /\ (IsRetryable(response.status)) => Len(Sent(trace)) = RETRY_COUNT + 1
        /\ CachesUntouched

\* A 201 is refused, on a Session that holds a curve.
C8_Witness ==
    /\ AttributeAnswered
    /\ response.status = 201
    /\ exc.type = "MetadataException"
    /\ DOMAIN curve_cache # {}

\* C9: every name of the name cache maps to an id that is a key of the curve
\* cache, in every state the Session reaches.
C9_NamesPointToCurves ==
    \A n \in DOMAIN name_cache : name_cache[n] \in DOMAIN curve_cache

\* A search whose second record was refused: the first one stays cached.
C9_Witness ==
    /\ pc = "done" /\ op = "search"
    /\ exc.type = "MetadataException"
    /\ response.status = 200
    /\ DOMAIN name_cache # DOMAIN pre.name_cache

\* A step that is a whole call of make_curve.
MakeCurveCall == ncalls' = ncalls + 1 /\ op' = "make_curve"

\* A step that is the call of get_curve(id) right after make_curve(id, ...)
\* for an id that was not cached.
LookupAfterMake ==
    /\ pc = "done" /\ op = "make_curve"
    /\ args.id \notin DOMAIN curve_cache
    /\ ncalls' = ncalls + 1 /\ op' = "get_curve"
    /\ args'.id = Some(args.id)

\* C10: make_curve(id, curve_type) returns a curve of the class registered
\* for curve_type, or raises CurveException for a curve_type outside the
\* registry; it invokes neither the transport nor the auth provider and
\* leaves the two caches as they were, so that a get_curve(id) after it, for
\* an id that was not cached, goes to data_request.
C10_MakeCurveNeverCaches ==
    [][/\ MakeCurveCall =>
            /\ pc' = "done"
            /\ trace' = <<>>
            /\ curve_cache' = curve_cache /\ name_cache' = name_cache
            /\ IF args'.curve_type \in {TIME_SERIES, TAGGED, INSTANCES, TAGGED_INSTANCES}
               THEN /\ exc' = NoExc
                    /\ result'.kind = "curve"
                    /\ result'.curves[1].class = curve_types[args'.curve_type]
                    /\ result'.curves[1].id = args'.id
                    /\ IsNone(result'.curves[1].metadata)
               ELSE exc'.type = "CurveException" /\ result' = NoResult
       /\ LookupAfterMake =>
            /\ pc' = "request"
            /\ request' = Request("GET", "/api/curves/get", <<Pair("id", args.id)>>)
      ]_vars

\* make_curve returned a curve on a Session whose caches hold another id.
C10_Witness ==
    /\ pc = "done" /\ op = "make_curve"
    /\ result.kind = "curve"
    /\ DOMAIN curve_cache # {}
    /\ args.id \notin DOMAIN curve_cache
    /\ CachesUntouched

\* The number of pairs a criterion contributes to the query.
Contribution(c) == IF c.iterable THEN Len(c.val) ELSE 1

\* The number of pairs the first n criteria contribute.
RECURSIVE PairsOf(_, _)
PairsOf(kwargs, n) ==
    IF n = 0 THEN 0 ELSE PairsOf(kwargs, n - 1) + Contribution(kwargs[n])

\* search was called with criteria of the allow-list only.
SearchAccepted ==
    /\ op = "search" /\ pc \in {"request", "done"}
    /\ \A i \in 1..Len(args.kwargs) : args.kwargs[i].key \in search_terms

\* C11: search hands data_request one GET, the same through every attempt of
\* the call, whose query has the pairs of the criteria in the order given: an
\* iterable value gives one key=value pair per element in element order, a
\* scalar or text value one pair; the pairs are joined with "&" after
\* "/api/curves?" (area=[NO,SE] gives area=NO&area=SE), and without any pair
\* the url is "/api/curves" alone.
C11_SearchQueryInOrder ==
    SearchAccepted =>
        LET kw == args.kwargs
            q == request.query
        IN  /\ request.method = "GET"
            /\ request.path = "/api/curves"
            /\ Len(q) = PairsOf(kw, Len(kw))
            /\ \A i \in 1..Len(kw) : \A j \in 1..Contribution(kw[i]) :
                   q[PairsOf(kw, i - 1) + j] =
                       Pair(kw[i].key, IF kw[i].iterable THEN kw[i].val[j]
                                       ELSE kw[i].val)
            /\ (Len(q) = 0) <=> (search_url(request) = "/api/curves")
            /\ (kw = <<Criterion("area", TRUE, <<"NO", "SE">>)>>)
                   => search_url(request) = "/api/curves?area=NO&area=SE"
            /\ (kw = <<Criterion("name", FALSE, "A"),
                       Criterion("area", TRUE, <<"NO", "SE">>)>>)
                   => search_url(request) = "/api/curves?name=A&area=NO&area=SE"
            /\ (kw = <<Criterion("commodity", TRUE, <<"POW">>),
                       Criterion("area", TRUE, <<>>)>>)
                   => search_url(request) = "/api/curves?commodity=POW"
            /\ (pc = "done" /\ exc.type # "AuthError") => Len(Sent(trace)) >= 1

\* search(area=["NO", "SE"]) got its answer after a retry.
C11_Witness ==
    /\ pc = "done" /\ op = "search"
    /\ args.kwargs = <<Criterion("area", TRUE, <<"NO", "SE">>)>>
    /\ search_url(request) = "/api/curves?area=NO&area=SE"
    /\ Sent(trace) = <<503, 200>>

\* C12: auth is absent on a Session constructed without configuration, and
\* once it holds a provider no step of any method (read_config_file,
\* configure, get_curve, search, make_curve, get_attribute, data_request,
\* returning or raising) makes it absent or puts another provider in its place.
C12_AuthWriteOnce ==
    /\ IsNone(init(CtorArgs(None, None, None, None, None)).auth)
    /\ [][~IsNone(auth) => auth' = auth]_vars

\* The Session was constructed with credentials, and a configure after a
\* lookup that went to the network was refused: the provider is the first one.
C12_Witness ==
    /\ pc = "done" /\ ncalls = 2 /\ op = "configure"
    /\ exc.type = "ConfigException"
    /\ auth = OAuth("id2", "s2", DefaultAuthUrlbase)
    /\ DOMAIN curve_cache # {}

\* The number of invocations of one kind in a trace.
Count(tr, ev) == Cardinality({i \in 1..Len(tr) : tr[i].ev = ev})

\* C13: on a Session with a provider, every invocation of the transport by
\* data_request, on the first attempt and on each retry, comes right after a
\* get_headers on the same body bytes, which comes right after a
\* validate_auth of its own: a call that returned after m invocations of the
\* transport made m validate_auth calls; when validate_auth raises, the call
\* raises and the transport is not invoked again. On a Session without a
\* provider the transport alone is invoked.
C13_AuthEveryAttempt ==
    IF IsNone(auth)
    THEN \A i \in 1..Len(trace) : trace[i].ev = "send"
    ELSE /\ \A i \in 1..Len(trace) :
              trace[i].ev = "send" =>
                  /\ i >= 3
                  /\ trace[i - 1].ev = "get_headers"
                  /\ trace[i - 1].body = trace[i].body
                  /\ trace[i - 2].ev = "validate_auth"
         /\ \A i \in 1..Len(trace) :
              trace[i].ev = "get_headers" =>
                  (i < Len(trace) /\ trace[i + 1].ev = "send")
         /\ (pc = "done" /\ exc.type # "AuthError")
                => Count(trace, "validate_auth") = Count(trace, "send")
         /\ (pc = "request")
                => Count(trace, "validate_auth") = Count(trace, "send")
         /\ (exc.type = "AuthError")
                => /\ pc = "done"
                   /\ result = NoResult
                   /\ trace[Len(trace)].ev = "validate_auth"
                   /\ Count(trace, "validate_auth") = Count(trace, "send") + 1

\* Two answers of 503, each after its own validation, and a third validation
\* that failed, in a call with a body.
C13_Witness ==
    /\ pc = "done" /\ op = "data_request"
    /\ ~IsNone(auth)
    /\ args.rawdata = Some(encode("raw")) /\ IsNone(args.data)
    /\ Sent(trace) = <<503, 503>>
    /\ Count(trace, "validate_auth") = 3
    /\ exc.type = "AuthError"

\* data_request was called with the arguments data and rawdata.
PayloadCall == op = "data_request" /\ pc \in {"request", "done"}

\* The invocations of the transport in the trace.
Sends == {i \in 1..Len(trace) : trace[i].ev = "send"}

\* The body that went out is the encoded data when data was given (a text as
\* it is, a list as its JSON text), else rawdata as it was given, else none.
BodyAsGiven(body) ==
    /\ (~IsNone(args.data) /\ Get(args.data).kind = "str")
           => body = Some([bytes |-> Get(args.data).value])
    /\ (args.data = Some(Data("list", <<"NO", "SE">>)))
           => body = Some([bytes |-> "[\"NO\", \"SE\"]"])
    /\ (args.data = Some(Data("list", <<>>))) => body = Some([bytes |-> "[]"])
    /\ (IsNone(args.data) /\ ~IsNone(args.rawdata)) => body = args.rawdata
    /\ (IsNone(args.data) /\ IsNone(args.rawdata)) => IsNone(body)

\* C14 as stated: the body that goes out is the encoded data when data is
\* given, else rawdata verbatim when given, else empty; the content type
\* header is on the request whenever there is a body, from data or from
\* rawdata, and not when the body is empty.
C14_ContentTypeWithAnyBody ==
    PayloadCall =>
        \A i \in Sends :
            /\ BodyAsGiven(trace[i].body)
            /\ ("content_type" \in DOMAIN trace[i].headers) <=> ~IsNone(trace[i].body)

\* C14 as amended: the body that goes out is as stated; the content type
\* header (content_type: application/json) is on the request exactly when
\* data is given, and not when the body comes from rawdata or is empty.
C14_ContentTypeWithData ==
    PayloadCall =>
        \A i \in Sends :
            /\ BodyAsGiven(trace[i].body)
            /\ ("content_type" \in DOMAIN trace[i].headers) <=> ~IsNone(args.data)
            /\ ("content_type" \in DOMAIN trace[i].headers)
                   => trace[i].headers["content_type"] = "application/json"

\* A call with rawdata alone: its bytes went out, without the header.
C14_Witness ==
    /\ PayloadCall /\ pc = "done"
    /\ IsNone(args.data) /\ args.rawdata = Some(encode("raw"))
    /\ Sends # {}
    /\ \A i \in Sends : /\ trace[i].body = args.rawdata
                         /\ "content_type" \notin DOMAIN trace[i].headers

\* handle_multi_curve_response was given a successful response whose
\* records are all valid.
MultiAllValid ==
    /\ pc = "done" /\ op = "handle_multi_curve_response"
    /\ ok(args.response) /\ args.response.body.json
    /\ \A k \in 1..Len(args.response.body.value) :
           ValidRecord(args.response.body.value[k])

\* The last record of recs whose id is i / whose name is n.
LastWithId(recs, i) ==
    CHOOSE k \in 1..Len(recs) :
        /\ int(recs[k]["id"]) = i
        /\ \A l \in (k + 1)..Len(recs) : int(recs[l]["id"]) # i

LastWithName(recs, n) ==
    CHOOSE k \in 1..Len(recs) :
        /\ recs[k]["name"] = n
        /\ \A l \in (k + 1)..Len(recs) : recs[l]["name"] # n

\* The sequence returned has the length of the response and its k-th curve
\* is a new object built from the k-th record; the curve cache holds, for the
\* id of each record, the curve built from the last record of that id.
MultiInOrderLastWins ==
    LET recs == args.response.body.value IN
    /\ exc = NoExc
    /\ result.kind = "list"
    /\ Len(result.curves) = Len(recs)
    /\ \A k \in 1..Len(recs) :
           /\ result.curves[k].metadata = Some(recs[k])
           /\ result.curves[k].id = int(recs[k]["id"])
           /\ result.curves[k].class = curve_types[recs[k]["curve_type"]]
           /\ result.curves[k].oid = <<ncalls, k>>
           /\ int(recs[k]["id"]) \in DOMAIN curve_cache
           /\ curve_cache[int(recs[k]["id"])] =
                  result.curves[LastWithId(recs, int(recs[k]["id"]))]
    /\ \A i \in DOMAIN pre.curve_cache :
           (\A k \in 1..Len(recs) : int(recs[k]["id"]) # i)
               => (i \in DOMAIN curve_cache /\ curve_cache[i] = pre.curve_cache[i])

\* C15 as stated: for a successful response whose records are all valid,
\* handle_multi_curve_response returns a sequence of the length of the
\* response whose k-th curve is built from the k-th record; of several
\* records with one id the last one is the curve cache's entry for that id,
\* and the name cache maps the name of every one of them to that id.
C15_MultiLastWriteWins ==
    MultiAllValid =>
        LET recs == args.response.body.value IN
        /\ MultiInOrderLastWins
        /\ \A k \in 1..Len(recs), l \in 1..Len(recs) :
               (k # l /\ int(recs[k]["id"]) = int(recs[l]["id"]))
                   => /\ recs[k]["name"] \in DOMAIN name_cache
                      /\ name_cache[recs[k]["name"]] = int(recs[k]["id"])

\* C15 as amended: ... and the name cache maps the name of every record to
\* the id of the last record of the response that carries that name (to the
\* record's own id, unless a later record has the same name and another id).
C15_MultiLastWriteWinsByName ==
    MultiAllValid =>
        LET recs == args.response.body.value IN
        /\ MultiInOrderLastWins
        /\ \A k \in 1..Len(recs) :
               /\ recs[k]["name"] \in DOMAIN name_cache
               /\ name_cache[recs[k]["name"]] =
                      int(recs[LastWithName(recs, recs[k]["name"])]["id"])
               /\ (\A l \in (k + 1)..Len(recs) :
                       recs[l]["name"] = recs[k]["name"]
                           => int(recs[l]["id"]) = int(recs[k]["id"]))
                   => name_cache[recs[k]["name"]] = int(recs[k]["id"])

\* Two records of id 1 named A and B, on a Session that holds curve 1
\* already: the second record's curve is the entry, both names map to 1.
C15_Witness ==
    /\ MultiAllValid
    /\ args.response.body.value =
           <<Metadata(<<"1">>, "A", TIME_SERIES), Metadata(<<"1">>, "B", TAGGED)>>
    /\ 1 \in DOMAIN pre.curve_cache
    /\ curve_cache[1] = result.curves[2]
    /\ name_cache["A"] = 1 /\ name_cache["B"] = 1

\* get_curve or search went to the network and the transport answered
\* every attempt of the call.
LookupAnswered ==
    /\ pc = "done" /\ op \in {"get_curve", "search"}
    /\ response.status # 0

\* C16: get_curve for an id or a name that is not cached, and search, against
\* a transport whose every answer is 5xx or 408, invoke the transport
\* RETRY_COUNT + 1 = 5 times and raise MetadataException; against a transport
\* that answers with another 4xx status they invoke it once and raise
\* MetadataException; the two caches are what they were before the call.
C16_LookupFailure ==
    LookupAnswered =>
        LET sent == Sent(trace) IN
        /\ Len(sent) >= 1
        /\ (LeadingTransient(sent) = Len(sent))
               => /\ Len(sent) = 5
                  /\ Len(sent) = RETRY_COUNT + 1
                  /\ exc.type = "MetadataException"
                  /\ result = NoResult
                  /\ CachesUntouched
        /\ (400 <= sent[1] /\ sent[1] < 500 /\ sent[1] # 408)
               => /\ Len(sent) = 1
                  /\ exc.type = "MetadataException"
                  /\ result = NoResult
                  /\ CachesUntouched

\* get_curve(name="B") on a Session that holds a curve of another name: five
\* answers of 503 and 408, and the lookup fails.
C16_Witness ==
    /\ LookupAnswered /\ op = "get_curve"
    /\ IsNone(args.id) /\ args.name = Some("B")
    /\ DOMAIN pre.name_cache = {"A"}
    /\ Sent(trace) = <<503, 408, 503, 408, 503>>
    /\ exc.type = "MetadataException"
    /\ CachesUntouched

\* The records of the response that the step built curves from: the record
\* of a single-curve response, the records of a multi-curve response up to
\* the first one that is not valid.
BuiltRecords(o, resp) ==
    IF ~ok(resp) \/ ~resp.body.json THEN {}
    ELSE IF o = "get_curve"
    THEN {m \in {resp.body.value} : ValidRecord(m)}
    ELSE IF o = "search"
    THEN {resp.body.value[k] : k \in {j \in 1..Len(resp.body.value) :
                                   \A l \in 1..j : ValidRecord(resp.body.value[l])}}
    ELSE {}

\* C17: over every step of every sequence of calls, the keys of the curve
\* cache and the keys of the name cache after the step include the keys
\* before it, and a name maps to another id after the step only if the step
\* built a curve of that name and that id.
C17_CachesOnlyGrow ==
    [][/\ DOMAIN curve_cache \subseteq DOMAIN curve_cache'
       /\ DOMAIN name_cache \subseteq DOMAIN name_cache'
       /\ \A n \in DOMAIN name_cache :
              (name_cache'[n] # name_cache[n])
                  => \E m \in BuiltRecords(op', response') :
                         m["name"] = n /\ int(m["id"]) = name_cache'[n]
      ]_vars

\* A lookup by id built a curve under a name the name cache had for another id.
C17_Witness ==
    /\ pc = "done" /\ op = "get_curve"
    /\ "A" \in DOMAIN pre.name_cache
    /\ name_cache["A"] # pre.name_cache["A"]
    /\ DOMAIN pre.curve_cache \subseteq DOMAIN curve_cache
    /\ DOMAIN curve_cache # DOMAIN pre.curve_cache

\* Both callers of the race have returned or raised.
RaceOver == \A t \in Callers : race.thr[t].pc = "done"

\* The caller that wrote the curve cache last.
LastWriter == race.writes[Len(race.writes)]

\* C18: with two callers running get_curve for one uncached id at once, their
\* steps in any order, each caller that found the id uncached makes a request
\* of its own (both may); in every state in between, every name of the name
\* cache maps to an id that is a key of the curve cache; and when both are
\* done the curve cache has one entry, for that id, which is the curve built
\* by the caller that wrote last (and none when no caller built a curve).
C18_RaceLastWriteWins ==
    /\ \A n \in DOMAIN name_cache : name_cache[n] \in DOMAIN curve_cache
    /\ \A t \in Callers :
           (race.thr[t].pc \in {"request", "write_curve", "write_name"})
               => race.thr[t].requested
    /\ \A i \in 1..Len(race.writes) : race.thr[race.writes[i]].requested
    /\ RaceOver =>
           /\ DOMAIN curve_cache \subseteq {race.id}
           /\ (race.writes = <<>>) <=> (DOMAIN curve_cache = {})
           /\ (race.writes # <<>>)
                  => /\ curve_cache[race.id] = Get(race.thr[LastWriter].curve)
                     /\ curve_cache[race.id].oid = <<LastWriter, 1>>
           /\ \A t \in Callers :
                  (race.thr[t].exc = NoExc)
                      => Get(race.thr[t].curve).id = race.id

\* Both callers found the id uncached, each made its request and built its
\* curve under its own name; the entry is the curve of the second writer.
C18_Witness ==
    /\ RaceOver
    /\ \A t \in Callers : race.thr[t].requested
    /\ race.writes = <<2, 1>>
    /\ curve_cache[race.id] = Get(race.thr[1].curve)
    /\ Get(race.thr[1].curve) # Get(race.thr[2].curve)
    /\ DOMAIN name_cache = {"A", "B"}

\* search got a successful response with a record that _build_curve refuses.
PartialSearch ==
    /\ pc = "done" /\ op = "search"
    /\ response.status # 0 /\ ok(response) /\ response.body.json
    /\ \E k \in 1..Len(response.body.value) : ~ValidRecord(response.body.value[k])

\* The first record of recs that is refused.
FirstRefused(recs) ==
    CHOOSE j \in 1..Len(recs) :
        /\ ~ValidRecord(recs[j])
        /\ \A l \in 1..(j - 1) : ValidRecord(recs[l])

\* C19: when the j-th record of a successful search response is the first
\* one _build_curve refuses (it lacks a key, or its curve_type is unknown,
\* or its id is not a number), search raises that record's exception
\* (MetadataException naming a key the record lacks, CurveException,
\* ValueError) and returns no curve; the curves
\* built from records 1..j-1 are in the curve cache and the name cache, and
\* nothing else was inserted: the records after j are not.
C19_PartialSearchStays ==
    PartialSearch =>
        LET recs == response.body.value
            j == FirstRefused(recs)
            done == SubSeq(recs, 1, j - 1)
        IN  /\ result = NoResult
            /\ IF ~HasAllKeys(recs[j])
               THEN /\ exc.type = "MetadataException"
                    /\ exc.detail \notin DOMAIN recs[j]
               ELSE exc.type = IF IsIntText(recs[j]["id"]) THEN "CurveException"
                                ELSE "ValueError"
            /\ DOMAIN curve_cache =
                   DOMAIN pre.curve_cache \cup {int(done[k]["id"]) : k \in 1..Len(done)}
            /\ DOMAIN name_cache =
                   DOMAIN pre.name_cache \cup {done[k]["name"] : k \in 1..Len(done)}
            /\ \A k \in 1..Len(done) :
                   /\ curve_cache[int(done[k]["id"])].metadata =
                          Some(done[LastWithId(done, int(done[k]["id"]))])
                   /\ curve_cache[int(done[k]["id"])].oid =
                          <<ncalls, LastWithId(done, int(done[k]["id"]))>>
                   /\ name_cache[done[k]["name"]] =
                          int(done[LastWithName(done, done[k]["name"])]["id"])
            /\ \A i \in DOMAIN pre.curve_cache :
                   (\A k \in 1..Len(done) : int(done[k]["id"]) # i)
                       => curve_cache[i] = pre.curve_cache[i]
            /\ \A n \in DOMAIN pre.name_cache :
                   (\A k \in 1..Len(done) : done[k]["name"] # n)
                       => name_cache[n] = pre.name_cache[n]

\* The second record has an unknown curve_type: the first record's curve was
\* cached by the search that failed.
C19_Witness ==
    /\ PartialSearch
    /\ response.body.value =
           <<Metadata(<<"2">>, "A", INSTANCES), Metadata(<<"1">>, "B", "BOGUS")>>
    /\ exc.type = "CurveException"
    /\ 2 \notin DOMAIN pre.curve_cache
    /\ 2 \in DOMAIN curve_cache /\ curve_cache[2].oid = <<ncalls, 1>>
    /\ 1 \notin DOMAIN curve_cache
    /\ name_cache["A"] = 2

\* The name cache has name n for an id whose cached curve has another name.
Stale(nc, cc, n) == CurveName(cc[nc[n]]) # n

\* get_curve was called with a name alone, which the name cache had for a
\* curve of another name.
StaleLookup ==
    /\ pc = "done" /\ op = "get_curve"
    /\ IsNone(args.id) /\ ~IsNone(args.name)
    /\ Get(args.name) \in DOMAIN pre.name_cache
    /\ Stale(pre.name_cache, pre.curve_cache, Get(args.name))

\* C20: the name cache keeps a name when the curve of its id is built again
\* under another name. In a step that builds curves, a name that none of the
\* built records carries keeps its id, also when that id was built again
\* under another name, which is then the name of the cached curve; right
\* after a lookup built one curve, the curve cached under the id of its name
\* has that name; and get_curve(name=A), for a name A whose id holds a curve
\* of another name, returns that curve without any invocation of the
\* transport or of the auth provider.
C20_StaleNamesKept ==
    /\ [](StaleLookup =>
            /\ exc = NoExc
            /\ trace = <<>>
            /\ result = Returned("curve",
                                  <<pre.curve_cache[pre.name_cache[Get(args.name)]]>>,
                                  <<>>)
            /\ CurveName(result.curves[1]) # Get(args.name)
            /\ CachesUntouched)
    /\ [][LET built == BuiltRecords(op', response') IN
          /\ \A n \in DOMAIN name_cache :
                 (\A m \in built : m["name"] # n)
                     => /\ n \in DOMAIN name_cache'
                        /\ name_cache'[n] = name_cache[n]
                        /\ (\E m \in built : int(m["id"]) = name_cache[n])
                               => /\ Stale(name_cache', curve_cache', n)
                                  /\ \E m \in built :
                                         /\ int(m["id"]) = name_cache[n]
                                         /\ CurveName(curve_cache'[name_cache[n]])
                                                = m["name"]
          /\ (op' = "get_curve" /\ built # {})
                 => \A m \in built :
                        /\ name_cache'[m["name"]] = int(m["id"])
                        /\ ~Stale(name_cache', curve_cache', m["name"])
         ]_vars

\* Curve 1 was built under the name A and again under the name B; then
\* get_curve(name="A") returned the curve named B, without a request.
C20_Witness ==
    /\ StaleLookup
    /\ args.name = Some("A")
    /\ name_cache["A"] = 1 /\ name_cache["B"] = 1
    /\ result.kind = "curve"
    /\ CurveName(result.curves[1]) = "B"
    /\ trace = <<>>

====
